---- MODULE Spec2Model ----
(***************************************************************************)
(* The asynchronous I2C transfer engine of src/i2c/modern.rs:             *)
(* AsyncI2cDriver (bus), AsyncI2cDeviceDriver (borrowed device),          *)
(* OwnedAsyncI2cDeviceDriver, I2cSlaveDriver, the per-port NOTIFIER table *)
(* and the native driver's handles, callbacks and completion interrupts.  *)
(***************************************************************************)
EXTENDS Integers, FiniteSets, Sequences, TLC

\* ------------------------------------------------------------------ bounds
\* Number of borrowed-device slots of the client program.
NumDevs == 2
\* Number of asynchronous calls the client program makes in one run.
MaxCalls == 2

\* Longest buffer of a call whose outcome is computed.
MaxLen == 2
\* Largest number of operations handed to transaction().
MaxOps == 2

\* ------------------------------------------------------- program constants
\* NOTIFIER: [HalIsrNotification; 2] on chips with two I2C ports.
NumPorts == 2

Ports == 0 .. (NumPorts - 1)
Devs == 1 .. NumDevs

\* esp_err_t values the native layer returns.
ESP_OK == "ESP_OK"
NativeErrors == {"ESP_FAIL", "ESP_ERR_TIMEOUT"}
NativeResults == {ESP_OK} \cup NativeErrors
\* EspError::from_infallible::<ESP_ERR_INVALID_ARG>()
ESP_ERR_INVALID_ARG == "ESP_ERR_INVALID_ARG"

\* 1.MHz(): the highest baud rate init_device accepts, in Hz.
MaxBaudrate == 1000000
\* Baud rates of the device configurations the client program uses.
DeviceBauds == {400000, 2000000}
\* Baud rates (Hz) around the limit, for calls whose outcome is computed.
Bauds == {1, 100000, 400000, 999999, 1000000, 1000001, 2000000, 4000000}

\* The types that implement embedded_hal(_async)::i2c::I2c.
DriverKinds == {"I2cDriver", "I2cDeviceDriver", "AsyncI2cDriver",
                "AsyncI2cDeviceDriver", "OwnedAsyncI2cDeviceDriver"}
\* unimplemented!("transactional not implemented"), todo!("How to block?")
NotImplemented == "panic: transactional not implemented"
TodoHowToBlock == "panic: How to block?"

OpKinds == {"read", "write", "write_read"}

\* TickType_t timeouts: a finite number of ticks, or delay::BLOCK
\* (TickType_t::MAX), which `timeout as i32` turns into -1.
BLOCK == "BLOCK"
Timeouts == {"ticks", BLOCK}

NoPort == -1
NoCb == -1
Idle == "idle"
\* Task identities: a borrowed device's task is its index in Devs.
NoTask == 0
PortTask == NumDevs + 1
\* No call is being evaluated.
NoReq == [op |-> "none"]

VARIABLES
    drv,        \* drv[p]: the driver value that exists for port p
    busLock,    \* busLock[p]: holder of AsyncI2cDriver::bus_lock
    cpu,        \* cpu[p]: the task of port p that runs on the executor thread
    notified,   \* notified[p]: the pending-completion flag of NOTIFIER[p]
    pc,         \* pc[d]: position of borrowed device d and of its operation
    devPort,    \* devPort[d]: the bus (port) device d borrows
    cb,         \* cb[d]: the NOTIFIER index registered on d's native handle
    inflight,   \* inflight[d]: native transfers queued for d, not completed
    steps,      \* steps[d]: the steps the current/last operation of d took
    res,        \* res[d]: the result the last operation of d returned
    nativeErr,  \* nativeErr[d]: the error the native transfer call reported
    ppc,        \* ppc[p]: position of the owned/slave operation on port p
    pcb,        \* pcb[p]: the NOTIFIER index registered on the owned/slave handle
    phandle,    \* phandle[p]: owned/slave native device handle exists
    pinflight,  \* pinflight[p]: native transfers queued for that handle
    pres,       \* pres[p]: the result the last owned/slave operation returned
    credit,     \* credit[p]: signals on NOTIFIER[p] minus returns of its wait()
    ncalls,     \* calls made so far
    panicked,   \* an unwrap() failed: the process aborted
    bh,         \* bh[p]: the native master bus handle of port p
    dh,         \* dh[d]: the native device handle of borrowed device d
    origin,     \* origin[p]: where the bus value of port p last came from
    req,        \* the call whose outcome is computed (SpecApi)
    out         \* the outcome of req (SpecApi)

vars == <<drv, busLock, cpu, notified, pc, devPort, cb, inflight, steps,
          res, nativeErr, ppc, pcb, phandle, pinflight, pres, credit, ncalls,
          panicked, bh, dh, origin, req, out>>

busVars == <<drv, busLock>>
devVars == <<pc, devPort, cb, inflight, steps, res, nativeErr>>
portVars == <<ppc, pcb, phandle, pinflight, pres>>
natVars == <<bh, dh, origin>>
envVars == <<req, out>>

InitDrivers ==
    /\ drv = [p \in Ports |-> "none"]
    /\ busLock = [p \in Ports |-> NoTask]
    /\ cpu = [p \in Ports |-> NoTask]
    /\ notified = [p \in Ports |-> FALSE]
    /\ pc = [d \in Devs |-> "none"]
    /\ devPort = [d \in Devs |-> NoPort]
    /\ cb = [d \in Devs |-> NoCb]
    /\ inflight = [d \in Devs |-> 0]
    /\ steps = [d \in Devs |-> <<>>]
    /\ res = [d \in Devs |-> "none"]
    /\ nativeErr = [d \in Devs |-> "none"]
    /\ ppc = [p \in Ports |-> Idle]
    /\ pcb = [p \in Ports |-> NoCb]
    /\ phandle = [p \in Ports |-> FALSE]
    /\ pinflight = [p \in Ports |-> 0]
    /\ pres = [p \in Ports |-> "none"]
    /\ credit = [p \in Ports |-> 0]
    /\ ncalls = 0
    /\ panicked = FALSE
    /\ bh = [p \in Ports |-> "none"]
    /\ dh = [d \in Devs |-> "none"]
    /\ origin = [p \in Ports |-> "new"]

Init ==
    /\ InitDrivers
    /\ req = NoReq
    /\ out = NoReq

\* ---------------------------------------------------------------- helpers
Append1(f, d, x) == [f EXCEPT ![d] = Append(@, x)]

\* A borrowed device value exists and borrows the bus of port p.
Borrows(d, p) == devPort[d] = p /\ pc[d] # "none"

\* The executor thread is free for a task of port p: no task, of this port or
\* of another, is between two of its suspension points (the .await of
\* acquire_bus() and of wait()). Tasks are cooperative and share one thread;
\* interrupt handlers run at any time.
CpuFree(p) == \A q \in Ports : cpu[q] = NoTask

\* unwrap() on an Err aborts the process: nothing of it remains.
Panic ==
    /\ panicked' = TRUE
    /\ drv' = [p \in Ports |-> "none"]
    /\ busLock' = [p \in Ports |-> NoTask]
    /\ cpu' = [p \in Ports |-> NoTask]
    /\ notified' = [p \in Ports |-> FALSE]
    /\ pc' = [d \in Devs |-> "none"]
    /\ devPort' = [d \in Devs |-> NoPort]
    /\ cb' = [d \in Devs |-> NoCb]
    /\ inflight' = [d \in Devs |-> 0]
    /\ steps' = [d \in Devs |-> <<>>]
    /\ res' = [d \in Devs |-> "none"]
    /\ nativeErr' = [d \in Devs |-> "none"]
    /\ ppc' = [p \in Ports |-> Idle]
    /\ pcb' = [p \in Ports |-> NoCb]
    /\ phandle' = [p \in Ports |-> FALSE]
    /\ pinflight' = [p \in Ports |-> 0]
    /\ pres' = [p \in Ports |-> "none"]
    /\ credit' = [p \in Ports |-> 0]
    /\ bh' = [p \in Ports |-> "none"]
    /\ dh' = [d \in Devs |-> "none"]
    /\ origin' = [p \in Ports |-> "new"]
    /\ UNCHANGED <<ncalls, envVars>>

\* --------------------------------------------------------------- Notifier
\* HalIsrNotification::notify_lsb: sets the pending-completion flag.
NotifyLsb(p) == [notified EXCEPT ![p] = TRUE]

\* HalIsrNotification::wait: ready when the flag is set ...
WaitReady(p) == notified[p]

\* ... and the returning wait clears it.
WaitTake(p) == [notified EXCEPT ![p] = FALSE]

\* Mutant: the handler signals NOTIFIER[0] whatever user_data is.
MasterIsrFirstNotifier(ctx) ==
    /\ notified' = NotifyLsb(0)
    /\ credit' = [credit EXCEPT ![0] = @ + 1]

\* master_isr / slave_isr: user_data is the Notifier registered on the handle.
MasterIsr(ctx) ==
    /\ notified' = NotifyLsb(ctx)
    /\ credit' = [credit EXCEPT ![ctx] = @ + 1]

\* ------------------------------------------------------ native registration
\* Mutant: the Notifier of port 0 is registered whatever the host is.
EnableWithFirstNotifier(d, host) == [cb EXCEPT ![d] = 0]

\* enable_master_dev_isr_callback(handle, host): user_data = &NOTIFIER[host]
EnableMasterDevIsrCallback(d, host) == [cb EXCEPT ![d] = host]

\* disable_master_dev_isr_callback(handle): default callbacks, null user_data
DisableMasterDevIsrCallback(d) == [cb EXCEPT ![d] = NoCb]

\* Mutant: wrap() that does not register the callback.
EnableOwnedDevIsrCallbackSkipped(p, host) == pcb

\* enable_master_dev_isr_callback(handle, host) on the handle of an owned device
EnableOwnedDevIsrCallback(p, host) == [pcb EXCEPT ![p] = host]

\* Mutant: teardown of an owned device that leaves the callback registered.
DisableOwnedDevIsrCallbackSkipped(p) == pcb

\* disable_master_dev_isr_callback(handle) on the handle of an owned device
DisableOwnedDevIsrCallback(p) == [pcb EXCEPT ![p] = NoCb]

\* Mutant: teardown of an owned device that leaves its handle on the bus.
RmOwnedDeviceSkipped(p) == phandle

\* i2c_master_bus_rm_device(self.handle) in Drop for OwnedAsyncI2cDeviceDriver
RmOwnedDevice(p) == [phandle EXCEPT ![p] = FALSE]

\* Mutant: the slave callback is registered with the Notifier of port 0.
EnableSlaveIsrCallbackFirstNotifier(p, host) == [pcb EXCEPT ![p] = 0]

\* enable_slave_isr_callback(handle, host): user_data = &NOTIFIER[host]
EnableSlaveIsrCallback(p, host) == [pcb EXCEPT ![p] = host]

\* disable_slave_isr_callback(handle): default callbacks, null user_data
DisableSlaveIsrCallback(p) == [pcb EXCEPT ![p] = NoCb]

\* ---------------------------------------------------------- native handles
\* i2c_new_master_bus(&config, &mut handle): a live bus handle
NewMasterBus(p) == [bh EXCEPT ![p] = "live"]

\* Mutant: the teardown loop breaks without deleting the bus.
DelMasterBusSkipped(p) == bh

\* i2c_del_master_bus(handle): frees a live handle
DelMasterBus(p) ==
    [bh EXCEPT ![p] = IF @ = "live" THEN "freed" ELSE "double_freed"]

\* i2c_master_bus_add_device(bus_handle, &config, &mut handle)
AddDevice(d) == [dh EXCEPT ![d] = "live"]

\* Mutant: removing a device removes every device handle of its bus.
RmDeviceAllOnBus(d) ==
    [e \in Devs |-> IF devPort[e] = devPort[d] THEN "removed" ELSE dh[e]]

\* i2c_master_bus_rm_device(handle): removes a live device handle
RmDevice(d) ==
    [dh EXCEPT ![d] = IF @ = "live" THEN "removed" ELSE "double_removed"]

\* Mutant: a baud rate of exactly 1 MHz is rejected too.
InitDeviceRejectsOneMHz(baud, r) ==
    IF baud >= MaxBaudrate
      THEN [res |-> ESP_ERR_INVALID_ARG, called |-> FALSE, handle |-> FALSE]
      ELSE [res |-> r, called |-> TRUE, handle |-> r = ESP_OK]

\* init_device(bus_handle, config): the result, whether
\* i2c_master_bus_add_device was called, and whether a handle was allocated.
InitDevice(baud, r) ==
    IF baud > MaxBaudrate
      THEN [res |-> ESP_ERR_INVALID_ARG, called |-> FALSE, handle |-> FALSE]
      ELSE [res |-> r, called |-> TRUE, handle |-> r = ESP_OK]

\* Mutant: a read that reports success once the receive is queued.
I2cSlaveReadReturnsOk(len, timeout, r) ==
    [result |-> r, calls |-> <<"i2c_slave_receive">>]

\* I2cSlaveDriver::read(buffer, timeout): esp!(i2c_slave_receive(..))?; todo!()
I2cSlaveRead(len, timeout, r) ==
    [result |-> IF r # ESP_OK THEN r ELSE TodoHowToBlock,
     calls |-> <<"i2c_slave_receive">>]

\* Mutant: the owned device runs the operations as native transfers.
TransactionOwnedRuns(kind, nops) ==
    IF kind = "OwnedAsyncI2cDeviceDriver"
      THEN [result |-> ESP_OK, calls |-> [i \in 1 .. nops |-> "i2c_master_transmit"]]
      ELSE [result |-> NotImplemented, calls |-> <<>>]

\* transaction(address, operations) of every driver type: unimplemented!(..)
Transaction(kind, nops) == [result |-> NotImplemented, calls |-> <<>>]

\* --------------------------------------------------------- error mapping
\* Error codes an EspError can carry (EspError never holds ESP_OK).
EspErrorCodes ==
    NativeErrors \cup {ESP_ERR_INVALID_ARG, "ESP_ERR_NO_MEM", "ESP_ERR_INVALID_STATE",
                       "ESP_ERR_NOT_FOUND"}

\* to_i2c_err(err): ESP_FAIL becomes NoAcknowledge(Unknown), every other code
\* becomes I2cError::other(err); both keep the EspError as the cause.
ToI2cErr(code) ==
    IF code = "ESP_FAIL"
      THEN [kind |-> "NoAcknowledge", source |-> "Unknown", cause |-> code]
      ELSE [kind |-> "Other", source |-> "none", cause |-> code]

\* ------------------------------------------------------- device addresses
\* u16: the type address() returns.
U16 == 65536
\* config::DeviceAddress: SevenBit(u8) and TenBit(u16) values.
SevenBitValues == 0 .. 255
TenBitValues == 0 .. 1023
DeviceAddresses ==
    [variant : {"SevenBit"}, addr : SevenBitValues]
        \cup [variant : {"TenBit"}, addr : TenBitValues]

\* Mutant: the address is cut to its low seven bits.
AddressLowSevenBits(da) == da.addr % 128

\* DeviceAddress::address(): `*addr as u16` for SevenBit, `*addr` for TenBit.
Address(da) == IF da.variant = "SevenBit" THEN da.addr % U16 ELSE da.addr

\* From<DeviceAddress> for i2c_addr_bit_len_t
AddrBitLen(da) ==
    IF da.variant = "SevenBit" THEN "I2C_ADDR_BIT_LEN_7" ELSE "I2C_ADDR_BIT_LEN_10"

\* What the native layer is handed for a device address.
DeviceAddressOf(da) == [address |-> Address(da), bit_len |-> AddrBitLen(da)]

\* ------------------------------------------------------------------ probe
\* Addresses probed: SevenBit(0x50) and TenBit(0x321).
ProbeAddresses ==
    {[variant |-> "SevenBit", addr |-> 80], [variant |-> "TenBit", addr |-> 801]}

\* i2c_master_probe: what the native layer may report when a device answers
\* at the address and when none does.
ProbeResults(present) ==
    IF present THEN {ESP_OK, "ESP_ERR_TIMEOUT"}
               ELSE {"ESP_ERR_NOT_FOUND", "ESP_ERR_TIMEOUT", "ESP_FAIL"}

\* I2cDriver::probe_device(address, timeout):
\* esp!(i2c_master_probe(self.handle, address.address(), timeout as i32));
\* the native code is returned as it is, as an EspError.
ProbeDevice(da, timeout, r) ==
    [result |-> IF r = ESP_OK THEN [kind |-> "Ok", cause |-> ESP_OK]
                              ELSE [kind |-> "EspError", cause |-> r],
     calls |-> <<[fn |-> "i2c_master_probe", address |-> Address(da),
                  timeout |-> IF timeout = BLOCK THEN -1 ELSE timeout]>>]

\* --------------------------------------------------------------- bus lock
\* Mutant: lock() that completes on a held mutex.
LockAvailableAlways(p) == TRUE

\* Mutex::lock().await completes only on a free mutex.
LockAvailable(p) == busLock[p] = NoTask

\* Mutant: teardown that does not look at the result of try_lock().
TryLockIgnored(p) == TRUE

\* Mutex::try_lock() is Ok only on a free mutex.
TryLockOk(p) == busLock[p] = NoTask

\* Mutant: `let _ = ..` drops the guard at once.
LockGuardDiscarded(t, p) == [busLock EXCEPT ![p] = NoTask]

\* let _lock_guard = ..: the guard lives to the end of the scope.
LockGuard(t, p) == [busLock EXCEPT ![p] = t]

\* Mutant: a guard that is leaked (mem::forget) instead of dropped.
GuardLeaked(p) == busLock

\* Dropping a MutexGuard unlocks.
GuardDropped(p) == [busLock EXCEPT ![p] = NoTask]

\* Mutant: on_err! that yields the result of the cleanup.
OnErrResultOfCleanup(e, r2) == r2

\* on_err!(d, oe): runs oe and yields the error of d.
OnErrResult(e, r2) == e

\* Mutant: the registration result is discarded, not propagated with `?`.
ArmErrorIgnored(r) == FALSE

\* enable_master_dev_isr_callback(..)?: an Err returns from the operation.
ArmPropagates(r) == r # ESP_OK

\* Mutant: the await is raced against a timer that can expire.
AwaitDoneOrTimeout(p) == TRUE

\* NOTIFIER[port].wait().await: completes when wait() is ready, and only then.
AwaitDone(p) == WaitReady(p)

\* The results the native transfer call can report under `timeout as i32`:
\* with BLOCK (-1) the native call waits forever and cannot time out.
IssueResults(t) ==
    IF t = BLOCK THEN NativeResults \ {"ESP_ERR_TIMEOUT"} ELSE NativeResults

\* ------------------------------------------------------------- AsyncI2cDriver
\* AsyncI2cDriver::new -> init_master_bus(.., 1)
NewBus(p) ==
    /\ ~panicked /\ drv[p] = "none" /\ CpuFree(p)
    /\ \E r \in NativeResults :
          IF r = ESP_OK
            THEN /\ drv' = [drv EXCEPT ![p] = "bus"]
                 /\ bh' = NewMasterBus(p)
                 /\ origin' = [origin EXCEPT ![p] = "new"]
            ELSE UNCHANGED <<drv, bh, origin>>
    /\ UNCHANGED <<busLock, cpu, notified, devVars, portVars, credit, ncalls, panicked, dh, envVars>>

\* The value can be dropped only when nothing borrows it.
DropBusBegin(p) ==
    /\ ~panicked /\ drv[p] = "bus" /\ CpuFree(p)
    /\ \A d \in Devs : ~Borrows(d, p)
    /\ drv' = [drv EXCEPT ![p] = "bus_dropping"]
    /\ cpu' = [cpu EXCEPT ![p] = PortTask]
    /\ UNCHANGED <<busLock, notified, devVars, portVars, credit, ncalls, panicked, natVars, envVars>>

\* Drop for AsyncI2cDriver: one iteration of loop { if let Ok(g) = try_lock() .. }
DropBusTryLock(p) ==
    /\ ~panicked /\ drv[p] = "bus_dropping"
    /\ IF TryLockOk(p)
         THEN /\ busLock' = LockGuard(PortTask, p)
              /\ drv' = [drv EXCEPT ![p] = "bus_droplocked"]
         ELSE UNCHANGED <<busLock, drv>>
    /\ UNCHANGED <<cpu, notified, devVars, portVars, credit, ncalls, panicked, natVars, envVars>>

\* esp!(i2c_del_master_bus(handle)).unwrap(); break; the guard is dropped
DropBusDel(p) ==
    /\ ~panicked /\ drv[p] = "bus_droplocked"
    /\ \E r \in NativeResults :
          IF r = ESP_OK
            THEN /\ drv' = [drv EXCEPT ![p] = "none"]
                 /\ bh' = DelMasterBus(p)
                 /\ origin' = [origin EXCEPT ![p] = "new"]
                 /\ busLock' = GuardDropped(p)
                 /\ cpu' = [cpu EXCEPT ![p] = NoTask]
                 /\ UNCHANGED <<notified, devVars, portVars, credit, ncalls, panicked,
                                dh, envVars>>
            ELSE Panic

\* ------------------------------------------------------ AsyncI2cDeviceDriver
\* AsyncI2cDriver::device -> AsyncI2cDeviceDriver::new -> init_device
NewDevice(d, p) ==
    /\ ~panicked /\ drv[p] = "bus" /\ CpuFree(p) /\ pc[d] = "none"
    /\ \E baud \in DeviceBauds, r \in NativeResults :
          IF InitDevice(baud, r).res = ESP_OK
            THEN /\ pc' = [pc EXCEPT ![d] = Idle]
                 /\ devPort' = [devPort EXCEPT ![d] = p]
                 /\ dh' = AddDevice(d)
                 /\ origin' = [origin EXCEPT ![p] = "new"]
            ELSE UNCHANGED <<pc, devPort, dh, origin>>
    /\ UNCHANGED <<busVars, cpu, notified, cb, inflight, steps, res, nativeErr,
                   portVars, credit, ncalls, panicked, bh, envVars>>

\* read / write / write_read are called: the future is created.
Call(d, k) ==
    /\ ~panicked /\ pc[d] = Idle /\ CpuFree(devPort[d]) /\ ncalls < MaxCalls
    /\ pc' = [pc EXCEPT ![d] = "acquire"]
    /\ steps' = [steps EXCEPT ![d] = <<>>]
    /\ res' = [res EXCEPT ![d] = "none"]
    /\ nativeErr' = [nativeErr EXCEPT ![d] = "none"]
    /\ ncalls' = ncalls + 1
    /\ UNCHANGED <<busVars, cpu, notified, devPort, cb, inflight, portVars, credit, panicked, natVars, envVars>>

\* let _lock_guard = driver.acquire_bus().await;
Acquire(d) ==
    LET p == devPort[d] IN
    /\ ~panicked /\ pc[d] = "acquire" /\ CpuFree(p)
    /\ LockAvailable(p)
    /\ busLock' = LockGuard(d, p)
    /\ cpu' = [cpu EXCEPT ![p] = d]
    /\ pc' = [pc EXCEPT ![d] = "locked"]
    /\ steps' = Append1(steps, d, "acquire")
    /\ UNCHANGED <<drv, notified, devPort, cb, inflight, res, nativeErr,
                   portVars, credit, ncalls, panicked, natVars, envVars>>

\* The operation returns r: the guard goes out of scope.
Return(d, r) ==
    LET p == devPort[d] IN
    /\ pc' = [pc EXCEPT ![d] = Idle]
    /\ res' = [res EXCEPT ![d] = r]
    /\ busLock' = GuardDropped(p)
    /\ cpu' = [cpu EXCEPT ![p] = NoTask]

\* enable_master_dev_isr_callback(handle, port)?;
Arm(d) ==
    LET p == devPort[d] IN
    /\ ~panicked /\ pc[d] = "locked"
    /\ \E r \in NativeResults :
          IF r = ESP_OK
            THEN /\ cb' = EnableMasterDevIsrCallback(d, p)
                 /\ pc' = [pc EXCEPT ![d] = "armed"]
                 /\ steps' = Append1(steps, d, "arm")
                 /\ UNCHANGED <<busLock, cpu, res, nativeErr>>
            ELSE /\ nativeErr' = [nativeErr EXCEPT ![d] = r]
                 /\ steps' = Append1(steps, d, "arm_failed")
                 /\ UNCHANGED cb
                 /\ IF ArmPropagates(r)
                      THEN Return(d, r)
                      ELSE /\ pc' = [pc EXCEPT ![d] = "armed"]
                           /\ UNCHANGED <<busLock, cpu, res>>
    /\ UNCHANGED <<drv, notified, devPort, inflight,
                   portVars, credit, ncalls, panicked, natVars, envVars>>

\* esp!(i2c_master_receive / transmit / transmit_receive (handle, .., timeout))
Issue(d) ==
    LET p == devPort[d] IN
    /\ ~panicked /\ pc[d] = "armed"
    /\ \E t \in Timeouts : \E r \in IssueResults(t) :
          IF r = ESP_OK
            THEN /\ inflight' = [inflight EXCEPT ![d] = @ + 1]
                 /\ pc' = [pc EXCEPT ![d] = "issued"]
                 /\ steps' = Append1(steps, d, "issue")
                 /\ UNCHANGED nativeErr
            ELSE /\ nativeErr' = [nativeErr EXCEPT ![d] = r]
                 /\ pc' = [pc EXCEPT ![d] = "issue_failed"]
                 /\ steps' = Append1(steps, d, "issue_failed")
                 /\ UNCHANGED inflight
    /\ UNCHANGED <<busVars, cpu, notified, devPort, cb, res,
                   portVars, credit, ncalls, panicked, natVars, envVars>>

\* on_err!(.., { disable_master_dev_isr_callback(handle).unwrap(); })?;
OnErrDisarm(d) ==
    /\ ~panicked /\ pc[d] = "issue_failed"
    /\ \E r2 \in NativeResults :
          IF r2 = ESP_OK
            THEN /\ cb' = DisableMasterDevIsrCallback(d)
                 /\ Return(d, OnErrResult(nativeErr[d], r2))
                 /\ steps' = Append1(steps, d, "disarm")
                 /\ UNCHANGED <<drv, notified, devPort, inflight, nativeErr,
                                portVars, credit, ncalls, panicked, natVars, envVars>>
            ELSE Panic

\* Mutant: the wait forgets a signal that arrived before it started.
WaitPollResetsFirst(d) ==
    LET p == devPort[d] IN
    /\ ~panicked /\ pc[d] = "issued"
    /\ notified' = [notified EXCEPT ![p] = FALSE]
    /\ pc' = [pc EXCEPT ![d] = "waiting"]
    /\ cpu' = [cpu EXCEPT ![p] = NoTask]
    /\ UNCHANGED <<busVars, devPort, cb, inflight, steps, res, nativeErr,
                   portVars, credit, ncalls, panicked, natVars, envVars>>

\* NOTIFIER[port].wait().await, first poll: returns at once when the flag is
\* set, suspends the task otherwise.
WaitPoll(d) ==
    LET p == devPort[d] IN
    /\ ~panicked /\ pc[d] = "issued"
    /\ IF AwaitDone(p)
         THEN /\ notified' = WaitTake(p)
              /\ credit' = [credit EXCEPT ![p] = @ - 1]
              /\ pc' = [pc EXCEPT ![d] = "woken"]
              /\ steps' = Append1(steps, d, "await")
              /\ UNCHANGED cpu
         ELSE /\ pc' = [pc EXCEPT ![d] = "waiting"]
              /\ cpu' = [cpu EXCEPT ![p] = NoTask]
              /\ UNCHANGED <<notified, credit, steps>>
    /\ UNCHANGED <<busVars, devPort, cb, inflight, res, nativeErr,
                   portVars, ncalls, panicked, natVars, envVars>>

\* The suspended wait is woken by the Notifier and returns.
Wake(d) ==
    LET p == devPort[d] IN
    /\ ~panicked /\ pc[d] = "waiting" /\ CpuFree(p)
    /\ AwaitDone(p)
    /\ notified' = WaitTake(p)
    /\ credit' = [credit EXCEPT ![p] = @ - 1]
    /\ pc' = [pc EXCEPT ![d] = "woken"]
    /\ cpu' = [cpu EXCEPT ![p] = d]
    /\ steps' = Append1(steps, d, "await")
    /\ UNCHANGED <<busVars, devPort, cb, inflight, res, nativeErr,
                   portVars, ncalls, panicked, natVars, envVars>>

\* disable_master_dev_isr_callback(handle)?; Ok(())
Disarm(d) ==
    /\ ~panicked /\ pc[d] = "woken"
    /\ \E r \in NativeResults :
          IF r = ESP_OK
            THEN /\ cb' = DisableMasterDevIsrCallback(d)
                 /\ Return(d, ESP_OK)
                 /\ steps' = Append1(steps, d, "disarm")
                 /\ UNCHANGED nativeErr
            ELSE /\ Return(d, r)
                 /\ nativeErr' = [nativeErr EXCEPT ![d] = r]
                 /\ steps' = Append1(steps, d, "disarm_failed")
                 /\ UNCHANGED cb
    /\ UNCHANGED <<drv, notified, devPort, inflight,
                   portVars, credit, ncalls, panicked, natVars, envVars>>

\* The native driver completes a queued transfer of device d and calls the
\* on_trans_done callback registered on the device handle, if any.
HwComplete(d) ==
    /\ ~panicked /\ inflight[d] > 0
    /\ inflight' = [inflight EXCEPT ![d] = @ - 1]
    /\ IF cb[d] # NoCb
         THEN MasterIsr(cb[d])
         ELSE UNCHANGED <<notified, credit>>
    /\ UNCHANGED <<busVars, cpu, pc, devPort, cb, steps, res, nativeErr,
                   portVars, ncalls, panicked, natVars, envVars>>

\* The device value goes out of scope (no operation borrows it).
DropDeviceBegin(d) ==
    LET p == devPort[d] IN
    /\ ~panicked /\ pc[d] = Idle /\ CpuFree(p)
    /\ pc' = [pc EXCEPT ![d] = "dropping"]
    /\ cpu' = [cpu EXCEPT ![p] = d]
    /\ UNCHANGED <<busVars, notified, devPort, cb, inflight, steps, res, nativeErr,
                   portVars, credit, ncalls, panicked, natVars, envVars>>

\* Drop for AsyncI2cDeviceDriver: one iteration of the try_lock loop
DropDeviceTryLock(d) ==
    LET p == devPort[d] IN
    /\ ~panicked /\ pc[d] = "dropping"
    /\ IF TryLockOk(p)
         THEN /\ busLock' = LockGuard(d, p)
              /\ pc' = [pc EXCEPT ![d] = "droplocked"]
         ELSE UNCHANGED <<busLock, pc>>
    /\ UNCHANGED <<drv, cpu, notified, devPort, cb, inflight, steps, res, nativeErr,
                   portVars, credit, ncalls, panicked, natVars, envVars>>

\* esp!(i2c_master_bus_rm_device(handle)).unwrap(); break;
DropDeviceRm(d) ==
    LET p == devPort[d] IN
    /\ ~panicked /\ pc[d] = "droplocked"
    /\ \E r \in NativeResults :
          IF r = ESP_OK
            THEN /\ pc' = [pc EXCEPT ![d] = "none"]
                 /\ devPort' = [devPort EXCEPT ![d] = NoPort]
                 /\ cb' = [cb EXCEPT ![d] = NoCb]
                 /\ inflight' = [inflight EXCEPT ![d] = 0]
                 /\ steps' = [steps EXCEPT ![d] = <<>>]
                 /\ res' = [res EXCEPT ![d] = "none"]
                 /\ nativeErr' = [nativeErr EXCEPT ![d] = "none"]
                 /\ busLock' = GuardDropped(p)
                 /\ cpu' = [cpu EXCEPT ![p] = NoTask]
                 /\ dh' = RmDevice(d)
                 /\ UNCHANGED <<drv, notified, portVars, credit, ncalls, panicked,
                                bh, origin, envVars>>
            ELSE Panic

\* ------------------------------------------------- OwnedAsyncI2cDeviceDriver
\* OwnedAsyncI2cDeviceDriver::wrap(driver, config): init_device(..)?, then
\* enable_master_dev_isr_callback(handle, driver.port())?. On an error the
\* driver, moved in by value, is dropped.
Wrap(p) ==
    /\ ~panicked /\ drv[p] = "bus" /\ CpuFree(p)
    /\ \A d \in Devs : ~Borrows(d, p)
    /\ \E baud \in DeviceBauds, r1, r2 \in NativeResults :
          IF InitDevice(baud, r1).res # ESP_OK
            THEN /\ drv' = [drv EXCEPT ![p] = "bus_dropping"]
                 /\ cpu' = [cpu EXCEPT ![p] = PortTask]
                 /\ origin' = [origin EXCEPT ![p] = "wrap_failed"]
                 /\ UNCHANGED <<pcb, phandle>>
            ELSE IF r2 # ESP_OK
              THEN /\ phandle' = [phandle EXCEPT ![p] = TRUE]
                   /\ drv' = [drv EXCEPT ![p] = "bus_dropping"]
                   /\ cpu' = [cpu EXCEPT ![p] = PortTask]
                   /\ origin' = [origin EXCEPT ![p] = "wrap_failed"]
                   /\ UNCHANGED pcb
              ELSE /\ phandle' = [phandle EXCEPT ![p] = TRUE]
                   /\ pcb' = EnableOwnedDevIsrCallback(p, p)
                   /\ drv' = [drv EXCEPT ![p] = "owned"]
                   /\ origin' = [origin EXCEPT ![p] = "new"]
                   /\ UNCHANGED cpu
    /\ UNCHANGED <<busLock, notified, devVars, ppc, pinflight, pres, credit, ncalls, panicked,
                   bh, dh, envVars>>

\* OwnedAsyncI2cDeviceDriver::read / write / write_read up to the await:
\* esp!(i2c_master_receive / transmit / transmit_receive (..))?
OwnedIssue(p, k) ==
    /\ ~panicked /\ drv[p] = "owned" /\ ppc[p] = Idle /\ CpuFree(p)
    /\ ncalls < MaxCalls
    /\ ncalls' = ncalls + 1
    /\ \E t \in Timeouts : \E r \in IssueResults(t) :
          IF r = ESP_OK
            THEN /\ pinflight' = [pinflight EXCEPT ![p] = @ + 1]
                 /\ ppc' = [ppc EXCEPT ![p] = "issued"]
                 /\ pres' = [pres EXCEPT ![p] = "none"]
                 /\ cpu' = [cpu EXCEPT ![p] = PortTask]
            ELSE /\ pres' = [pres EXCEPT ![p] = r]
                 /\ UNCHANGED <<pinflight, ppc, cpu>>
    /\ UNCHANGED <<busVars, notified, devVars, pcb, phandle, credit, panicked, natVars, envVars>>

\* NOTIFIER[port].wait().await; Ok(())  -- first poll
PortWaitPoll(p) ==
    /\ ~panicked /\ ppc[p] = "issued"
    /\ IF AwaitDone(p)
         THEN /\ notified' = WaitTake(p)
              /\ credit' = [credit EXCEPT ![p] = @ - 1]
              /\ ppc' = [ppc EXCEPT ![p] = Idle]
              /\ pres' = [pres EXCEPT ![p] = ESP_OK]
         ELSE /\ ppc' = [ppc EXCEPT ![p] = "waiting"]
              /\ UNCHANGED <<notified, credit, pres>>
    /\ cpu' = [cpu EXCEPT ![p] = NoTask]
    /\ UNCHANGED <<busVars, devVars, pcb, phandle, pinflight, ncalls, panicked, natVars, envVars>>

\* NOTIFIER[port].wait().await; Ok(())  -- woken
PortWake(p) ==
    /\ ~panicked /\ ppc[p] = "waiting" /\ CpuFree(p)
    /\ AwaitDone(p)
    /\ notified' = WaitTake(p)
    /\ credit' = [credit EXCEPT ![p] = @ - 1]
    /\ ppc' = [ppc EXCEPT ![p] = Idle]
    /\ pres' = [pres EXCEPT ![p] = ESP_OK]
    /\ UNCHANGED <<busVars, cpu, devVars, pcb, phandle, pinflight, ncalls, panicked, natVars, envVars>>

\* The native driver completes a transfer (master) or a receive (slave) of the
\* handle of port p and calls the registered callback, if any.
PortHwComplete(p) ==
    /\ ~panicked /\ pinflight[p] > 0
    /\ pinflight' = [pinflight EXCEPT ![p] = @ - 1]
    /\ IF pcb[p] # NoCb
         THEN MasterIsr(pcb[p])
         ELSE UNCHANGED <<notified, credit>>
    /\ UNCHANGED <<busVars, cpu, devVars, ppc, pcb, phandle, pres, ncalls, panicked, natVars, envVars>>

\* Drop for OwnedAsyncI2cDeviceDriver: disable_master_dev_isr_callback(..)
\* .unwrap(); esp!(i2c_master_bus_rm_device(..)).unwrap(); then the field
\* `driver` is dropped: next is the driver kept (release) or dropped.
OwnedDropBody(p, next) ==
    /\ ~panicked /\ drv[p] = "owned" /\ ppc[p] = Idle /\ CpuFree(p)
    /\ \E r1, r2 \in NativeResults :
          IF r1 = ESP_OK /\ r2 = ESP_OK
            THEN /\ pcb' = DisableOwnedDevIsrCallback(p)
                 /\ phandle' = RmOwnedDevice(p)
                 /\ pinflight' = [pinflight EXCEPT ![p] = 0]
                 /\ pres' = [pres EXCEPT ![p] = "none"]
                 /\ drv' = [drv EXCEPT ![p] = next]
                 /\ cpu' = [cpu EXCEPT ![p] = IF next = "bus" THEN NoTask ELSE PortTask]
                 /\ origin' = [origin EXCEPT ![p] = IF next = "bus" THEN "released"
                                                      ELSE "owned_dropped"]
                 /\ UNCHANGED <<busLock, notified, devVars, ppc, credit, ncalls, panicked,
                                bh, dh, envVars>>
            ELSE Panic

OwnedDrop(p) == OwnedDropBody(p, "bus_dropping")

\* OwnedAsyncI2cDeviceDriver::release: driver.take(); drop(self); Ok(driver)
Release(p) == OwnedDropBody(p, "bus")

\* ------------------------------------------------------------ I2cSlaveDriver
\* I2cSlaveDriver::new: init_slave_device(..)?; enable_slave_isr_callback(..)?
NewSlave(p) ==
    /\ ~panicked /\ drv[p] = "none" /\ CpuFree(p)
    /\ \E r1, r2 \in NativeResults :
          IF r1 # ESP_OK
            THEN UNCHANGED <<drv, pcb, phandle>>
            ELSE IF r2 # ESP_OK
              THEN /\ phandle' = [phandle EXCEPT ![p] = TRUE]
                   /\ UNCHANGED <<drv, pcb>>
              ELSE /\ phandle' = [phandle EXCEPT ![p] = TRUE]
                   /\ pcb' = EnableSlaveIsrCallback(p, p)
                   /\ drv' = [drv EXCEPT ![p] = "slave"]
    /\ UNCHANGED <<busLock, cpu, notified, devVars, ppc, pinflight, pres, credit, ncalls, panicked, natVars, envVars>>

\* I2cSlaveDriver::async_read up to the await: esp!(i2c_slave_receive(..))?
SlaveAsyncRead(p) ==
    /\ ~panicked /\ drv[p] = "slave" /\ ppc[p] = Idle /\ CpuFree(p)
    /\ ncalls < MaxCalls
    /\ ncalls' = ncalls + 1
    /\ \E r \in NativeResults :
          IF r = ESP_OK
            THEN /\ pinflight' = [pinflight EXCEPT ![p] = @ + 1]
                 /\ ppc' = [ppc EXCEPT ![p] = "issued"]
                 /\ pres' = [pres EXCEPT ![p] = "none"]
                 /\ cpu' = [cpu EXCEPT ![p] = PortTask]
            ELSE /\ pres' = [pres EXCEPT ![p] = r]
                 /\ UNCHANGED <<pinflight, ppc, cpu>>
    /\ UNCHANGED <<busVars, notified, devVars, pcb, phandle, credit, panicked, natVars, envVars>>

\* Drop for I2cSlaveDriver: disable_slave_isr_callback(..).unwrap();
\* esp!(i2c_del_slave_device(..)).unwrap()
SlaveDrop(p) ==
    /\ ~panicked /\ drv[p] = "slave" /\ ppc[p] = Idle /\ CpuFree(p)
    /\ \E r1, r2 \in NativeResults :
          IF r1 = ESP_OK /\ r2 = ESP_OK
            THEN /\ pcb' = DisableSlaveIsrCallback(p)
                 /\ phandle' = [phandle EXCEPT ![p] = FALSE]
                 /\ pinflight' = [pinflight EXCEPT ![p] = 0]
                 /\ pres' = [pres EXCEPT ![p] = "none"]
                 /\ drv' = [drv EXCEPT ![p] = "none"]
                 /\ UNCHANGED <<busLock, cpu, notified, devVars, ppc, credit, ncalls, panicked, natVars, envVars>>
            ELSE Panic

\* I2cSlaveDriver::read: returns the error of i2c_slave_receive or panics.
SlaveRead(p) ==
    /\ ~panicked /\ drv[p] = "slave" /\ ppc[p] = Idle /\ CpuFree(p)
    /\ \E r \in NativeResults :
          IF I2cSlaveRead(MaxLen, BLOCK, r).result \in NativeErrors
            THEN UNCHANGED vars
            ELSE Panic

\* transaction() on the asynchronous bus or on its owned device.
TransactionOnPort(p) ==
    /\ ~panicked /\ drv[p] \in {"bus", "owned"} /\ ppc[p] = Idle /\ CpuFree(p)
    /\ \A d \in Devs : ~Borrows(d, p)
    /\ IF Transaction(IF drv[p] = "bus" THEN "AsyncI2cDriver"
                      ELSE "OwnedAsyncI2cDeviceDriver", MaxOps).result = NotImplemented
         THEN Panic
         ELSE UNCHANGED vars

\* transaction() on a borrowed device.
TransactionOnDevice(d) ==
    /\ ~panicked /\ pc[d] = Idle /\ CpuFree(devPort[d])
    /\ IF Transaction("AsyncI2cDeviceDriver", MaxOps).result = NotImplemented
         THEN Panic
         ELSE UNCHANGED vars

Next ==
    \/ \E p \in Ports : NewBus(p)
    \/ \E p \in Ports : DropBusBegin(p)
    \/ \E p \in Ports : DropBusTryLock(p)
    \/ \E p \in Ports : DropBusDel(p)
    \/ \E d \in Devs, p \in Ports : NewDevice(d, p)
    \/ \E d \in Devs, k \in OpKinds : Call(d, k)
    \/ \E d \in Devs : Acquire(d)
    \/ \E d \in Devs : Arm(d)
    \/ \E d \in Devs : Issue(d)
    \/ \E d \in Devs : OnErrDisarm(d)
    \/ \E d \in Devs : WaitPoll(d)
    \/ \E d \in Devs : Wake(d)
    \/ \E d \in Devs : Disarm(d)
    \/ \E d \in Devs : HwComplete(d)
    \/ \E d \in Devs : DropDeviceBegin(d)
    \/ \E d \in Devs : DropDeviceTryLock(d)
    \/ \E d \in Devs : DropDeviceRm(d)
    \/ \E p \in Ports : Wrap(p)
    \/ \E p \in Ports, k \in OpKinds : OwnedIssue(p, k)
    \/ \E p \in Ports : PortWaitPoll(p)
    \/ \E p \in Ports : PortWake(p)
    \/ \E p \in Ports : PortHwComplete(p)
    \/ \E p \in Ports : OwnedDrop(p)
    \/ \E p \in Ports : Release(p)
    \/ \E p \in Ports : NewSlave(p)
    \/ \E p \in Ports : SlaveAsyncRead(p)
    \/ \E p \in Ports : SlaveDrop(p)
    \/ \E p \in Ports : SlaveRead(p)
    \/ \E p \in Ports : TransactionOnPort(p)
    \/ \E d \in Devs : TransactionOnDevice(d)

Spec == Init /\ [][Next]_vars

\* ------------------------------------------------------ dropped futures
\* The future of a borrowed operation is dropped while it is suspended in
\* NOTIFIER[port].wait().await: its locals go out of scope, so _lock_guard
\* releases the bus lock; no code of the operation runs any more, so the
\* callback stays registered and the native transfer stays queued.
Cancel(d) ==
    LET p == devPort[d] IN
    /\ ~panicked /\ pc[d] = "waiting" /\ CpuFree(p)
    /\ pc' = [pc EXCEPT ![d] = Idle]
    /\ res' = [res EXCEPT ![d] = "cancelled"]
    /\ steps' = Append1(steps, d, "cancelled")
    /\ busLock' = GuardDropped(p)
    /\ UNCHANGED <<drv, cpu, notified, devPort, cb, inflight, nativeErr,
                   portVars, credit, ncalls, panicked, natVars, envVars>>

\* The future of an owned-device operation is dropped while it is suspended
\* in NOTIFIER[port].wait().await; the native transfer stays queued.
PortCancel(p) ==
    /\ ~panicked /\ drv[p] = "owned" /\ ppc[p] = "waiting" /\ CpuFree(p)
    /\ ppc' = [ppc EXCEPT ![p] = Idle]
    /\ pres' = [pres EXCEPT ![p] = "cancelled"]
    /\ UNCHANGED <<busVars, cpu, notified, devVars, pcb, phandle, pinflight,
                   credit, ncalls, panicked, natVars, envVars>>

NextCancel ==
    \/ Next
    \/ \E d \in Devs : Cancel(d)
    \/ \E p \in Ports : PortCancel(p)

\* The program when the client may also drop the future of an operation.
SpecCancel == Init /\ [][NextCancel]_vars

\* ------------------------------------------------- outcomes of single calls
Pending == [op |-> "pending"]

SlaveReadReqs ==
    [op : {"slave_read"}, len : 0 .. MaxLen, timeout : Timeouts, native : NativeResults]
TransactionReqs == [op : {"transaction"}, kind : DriverKinds, nops : 0 .. MaxOps]
InitDeviceReqs == [op : {"init_device"}, baud : Bauds, native : NativeResults]
ToI2cErrReqs == [op : {"to_i2c_err"}, code : EspErrorCodes]
DeviceAddressReqs == [op : {"device_address"}, da : DeviceAddresses]
ProbeReqs ==
    {[op |-> "probe", da |-> a, timeout |-> t, present |-> b, native |-> r] :
        a \in ProbeAddresses, t \in Timeouts, b \in BOOLEAN,
        r \in NativeResults \cup {"ESP_ERR_NOT_FOUND"}}
ApiReqs ==
    SlaveReadReqs \cup TransactionReqs \cup InitDeviceReqs \cup ToI2cErrReqs
        \cup DeviceAddressReqs \cup {q \in ProbeReqs : q.native \in ProbeResults(q.present)}

\* One call with its arguments and the result of the native call it makes.
InitApi ==
    /\ InitDrivers
    /\ req \in ApiReqs
    /\ out = Pending

ApiUnchanged ==
    UNCHANGED <<busVars, cpu, notified, devVars, portVars, credit, ncalls, panicked,
                natVars, req>>

CallSlaveRead ==
    /\ req.op = "slave_read" /\ out = Pending
    /\ out' = I2cSlaveRead(req.len, req.timeout, req.native)
    /\ ApiUnchanged

CallTransaction ==
    /\ req.op = "transaction" /\ out = Pending
    /\ out' = Transaction(req.kind, req.nops)
    /\ ApiUnchanged

CallInitDevice ==
    /\ req.op = "init_device" /\ out = Pending
    /\ out' = InitDevice(req.baud, req.native)
    /\ ApiUnchanged

CallToI2cErr ==
    /\ req.op = "to_i2c_err" /\ out = Pending
    /\ out' = ToI2cErr(req.code)
    /\ ApiUnchanged

CallDeviceAddress ==
    /\ req.op = "device_address" /\ out = Pending
    /\ out' = DeviceAddressOf(req.da)
    /\ ApiUnchanged

CallProbeDevice ==
    /\ req.op = "probe" /\ out = Pending
    /\ out' = ProbeDevice(req.da, req.timeout, req.native)
    /\ ApiUnchanged

NextApi ==
    \/ CallSlaveRead
    \/ CallTransaction
    \/ CallInitDevice
    \/ CallToI2cErr
    \/ CallDeviceAddress
    \/ CallProbeDevice

SpecApi == InitApi /\ [][NextApi]_vars

\* ================================================================= claims
RECURSIVE SumOver(_, _)
SumOver(f, S) ==
    IF S = {} THEN 0
    ELSE LET x == CHOOSE y \in S : TRUE IN f[x] + SumOver(f, S \ {x})

Has(seq, x) == \E i \in 1 .. Len(seq) : seq[i] = x

DevsOn(p) == {d \in Devs : devPort[d] = p}

\* The operation of d is inside the scope of its _lock_guard.
InTransfer(d) ==
    pc[d] \in {"locked", "armed", "issue_failed", "issued", "waiting", "woken"}

\* Native transfers of borrowed devices pending on the bus of port p.
PendingOnBus(p) == SumOver(inflight, DevsOn(p))

\* Operations on port p that have issued their transfer and whose wait has
\* not returned.
Awaiting(p) ==
    Cardinality({d \in DevsOn(p) : pc[d] \in {"issued", "waiting"}})
    + (IF ppc[p] \in {"issued", "waiting"} THEN 1 ELSE 0)

FullCycle == <<"acquire", "arm", "issue", "await", "disarm">>

\* C1: on every bus at most one native transfer of its borrowed devices is
\* pending; a pending transfer was issued by the task that holds the bus lock,
\* which is past its issue and has not yet returned from its wait, so no other
\* transfer is issued before that wait has returned.
C1_TotalOrder ==
    \A p \in Ports :
        /\ PendingOnBus(p) <= 1
        /\ \A d \in DevsOn(p) :
              inflight[d] > 0 =>
                  /\ busLock[p] = d
                  /\ pc[d] \in {"issued", "waiting"}

\* C1 witness: a second device has a transfer pending on a bus on which
\* another device has completed one.
C1_Witness ==
    \E d1, d2 \in Devs :
        /\ d1 # d2 /\ devPort[d1] = devPort[d2] /\ devPort[d1] # NoPort
        /\ pc[d1] = Idle /\ res[d1] = ESP_OK
        /\ inflight[d2] = 1

\* C2: the native bus handle is not freed mid-transfer: teardown reaches the
\* i2c_del_master_bus call only holding the bus lock itself, and while a
\* transfer holds the lock the handle is live and not being deleted.
C2_NotFreedMidTransfer ==
    \A p \in Ports :
        /\ drv[p] = "bus_droplocked" => busLock[p] = PortTask
        /\ \A d \in DevsOn(p) :
              (InTransfer(d) \/ busLock[p] = d) => drv[p] \in {"bus", "bus_dropping"}

\* C2 witness: after transfers ran on the bus, its teardown holds the bus
\* lock and is about to free the handle.
C2_Witness ==
    \E p \in Ports :
        /\ drv[p] = "bus_droplocked" /\ busLock[p] = PortTask
        /\ ncalls > 0 /\ credit[p] = 0 /\ ~notified[p]

C4_ArmedOnlyUnderLock ==
    \A d \in Devs :
        cb[d] # NoCb => /\ InTransfer(d)
                        /\ busLock[devPort[d]] = d

\* C5: at most one task waits (or is about to wait) on the Notifier of a port.
C5_OneWaiterPerPort == \A p \in Ports : Awaiting(p) <= 1

\* C5 witness: one device waits on the Notifier while another device of the
\* same bus is held back at the bus lock.
C5_Witness ==
    \E d1, d2 \in Devs :
        /\ d1 # d2 /\ devPort[d1] = devPort[d2]
        /\ pc[d1] = "waiting" /\ pc[d2] = "acquire"

C7_CycleReturnsOk ==
    \A d \in Devs :
        (pc[d] = Idle /\ Has(steps[d], "await")) =>
            /\ steps[d] = FullCycle
            /\ res[d] = ESP_OK

\* C8: an operation whose native transfer call failed has disarmed the
\* callback, has not waited, and returned the error the native call reported.
C8_IssueErrorReturned ==
    \A d \in Devs :
        (pc[d] = Idle /\ Has(steps[d], "issue_failed")) =>
            /\ steps[d] = <<"acquire", "arm", "issue_failed", "disarm">>
            /\ res[d] \in NativeErrors
            /\ res[d] = nativeErr[d]
            /\ cb[d] = NoCb

\* C8 witness: an operation has returned the native call's timeout error.
C8_Witness ==
    \E d \in Devs :
        /\ pc[d] = Idle /\ Has(steps[d], "issue_failed")
        /\ nativeErr[d] = "ESP_ERR_TIMEOUT" /\ res[d] = "ESP_ERR_TIMEOUT"

\* C9: an operation whose arming failed has returned the registration error
\* without issuing a native transfer and without waiting.
C9_ArmErrorReturned ==
    \A d \in Devs :
        Has(steps[d], "arm_failed") =>
            /\ steps[d] = <<"acquire", "arm_failed">>
            /\ ~InTransfer(d)
            /\ res[d] \in NativeErrors
            /\ res[d] = nativeErr[d]
            /\ inflight[d] = 0

\* C9 witness: an operation has returned the error of the failed registration.
C9_Witness ==
    \E d \in Devs :
        /\ pc[d] = Idle /\ steps[d] = <<"acquire", "arm_failed">>
        /\ res[d] = "ESP_FAIL"

\* C10: whatever the timeout, an operation past its issue leaves its wait
\* only by a step taken with the Notifier's flag set: without a completion
\* signal it stays suspended.
C10_WaitEndsOnlyOnSignal ==
    [][~panicked' =>
          /\ \A d \in Devs :
                (pc[d] \in {"issued", "waiting"}
                   /\ pc'[d] \notin {"issued", "waiting"})
                    => notified[devPort[d]]
          /\ \A p \in Ports :
                (ppc[p] \in {"issued", "waiting"} /\ ppc'[p] = Idle)
                    => notified[p]]_vars

\* C10 witness: a task is suspended in wait() with no signal pending.
C10_Witness ==
    \E d \in Devs :
        /\ pc[d] = "waiting" /\ ~notified[devPort[d]] /\ inflight[d] = 1

\* The driver values that hold a native master bus handle.
BusAlive == {"bus", "bus_dropping", "bus_droplocked", "owned"}

\* C11: the native bus handle of an asynchronous bus is freed exactly once:
\* it is live exactly as long as a bus value (plain, being dropped, or held by
\* an owned device) exists for the port, and it is never freed a second time.
C11_BusHandleFreedOnce ==
    \A p \in Ports :
        /\ bh[p] # "double_freed"
        /\ bh[p] = "live" <=> drv[p] \in BusAlive

\* C11 witness: a bus that an owned device held was handed back by release(),
\* and the bus of the other port has been dropped and its handle freed.
C11_Witness ==
    \E p, q \in Ports :
        /\ origin[p] = "released" /\ bh[p] = "live"
        /\ bh[q] = "freed" /\ drv[q] = "none" /\ ~panicked

\* C12: a borrowed device value has exactly one live native device handle,
\* which is removed once, and removing it leaves the bus handle and every
\* other device handle as they were.
C12_DeviceHandleRemovedOnce ==
    /\ [](\A d \in Devs :
            /\ dh[d] # "double_removed"
            /\ dh[d] = "live" <=> pc[d] # "none")
    /\ [][\A d \in Devs :
            (dh[d] = "live" /\ dh'[d] # "live" /\ ~panicked') =>
                /\ dh'[d] = "removed"
                /\ bh' = bh /\ phandle' = phandle
                /\ \A e \in Devs \ {d} : dh'[e] = dh[e]]_vars

\* C12 witness: one device of a bus has been destroyed while another device
\* of that bus, and the bus, are live.
C12_Witness ==
    \E d, e \in Devs :
        /\ dh[d] = "removed" /\ pc[d] = "none"
        /\ dh[e] = "live" /\ pc[e] = Idle /\ bh[devPort[e]] = "live"
        /\ ncalls > 0

\* C13: an owned device's callback is registered with its port's Notifier in
\* every state in which the owned device exists, and a registration on its
\* handle changes only in a step that constructs or destroys the device: no
\* read, write or write_read arms or disarms, whatever the native call reports.
C13_OwnedArmedOnce ==
    /\ [](\A p \in Ports : drv[p] = "owned" => (pcb[p] = p /\ phandle[p]))
    /\ [][\A p \in Ports :
            (pcb'[p] # pcb[p] /\ ~panicked') => drv'[p] # drv[p]]_vars

\* C13 witness: an operation on an owned device has returned the error of its
\* native call and the callback is still armed.
C13_Witness ==
    \E p \in Ports :
        /\ drv[p] = "owned" /\ pres[p] \in NativeErrors
        /\ pcb[p] = p /\ ppc[p] = Idle

\* C14: the bus that release() hands back has its callback disarmed, the owned
\* device's handle removed, a live native bus handle and a free lock, so a
\* device can be created on it and it can be dropped.
C14_ReleaseHandsBackLiveBus ==
    \A p \in Ports :
        origin[p] = "released" =>
            /\ pcb[p] = NoCb /\ ~phandle[p]
            /\ bh[p] = "live"
            /\ drv[p] \in {"bus", "bus_dropping", "bus_droplocked"}
            /\ (drv[p] = "bus" /\ CpuFree(p)) =>
                  /\ busLock[p] = NoTask
                  /\ ENABLED DropBusBegin(p)
                  /\ \A d \in Devs : pc[d] = "none" => ENABLED NewDevice(d, p)

\* C14 witness: after calls on the port, release() has handed back the bus.
C14_Witness ==
    \E p \in Ports :
        /\ origin[p] = "released" /\ drv[p] = "bus" /\ ncalls > 0
        /\ \A q \in Ports \ {p} : drv[q] = "none" /\ bh[q] = "none"

\* C15: dropping an owned device disarms the callback and removes the device
\* handle while the bus handle is still live, and the bus handle is then
\* freed by a step taken with the bus lock held, with no transfer in the
\* scope of the lock and none in flight.
C15_OwnedDropOrder ==
    /\ [](\A p \in Ports :
            origin[p] = "owned_dropped" =>
                /\ pcb[p] = NoCb /\ ~phandle[p]
                /\ bh[p] = "live"
                /\ drv[p] \in {"bus_dropping", "bus_droplocked"})
    /\ [][\A p \in Ports :
            (bh[p] = "live" /\ bh'[p] # "live" /\ ~panicked') =>
                /\ busLock[p] = PortTask
                /\ pinflight[p] = 0
                /\ \A d \in DevsOn(p) : ~InTransfer(d)]_vars

\* C15 witness: after calls on the port, the teardown of the owned device
\* holds the bus lock and is about to free the bus handle.
C15_Witness ==
    \E p \in Ports :
        /\ origin[p] = "owned_dropped" /\ drv[p] = "bus_droplocked"
        /\ busLock[p] = PortTask /\ ncalls > 0
        /\ \A q \in Ports \ {p} : drv[q] = "none" /\ bh[q] = "none"

\* The teardown of a device of bus p spins on the bus lock, which a suspended
\* operation of another device of that bus holds.
SpinsOnHeldLock(p) ==
    \E e, f \in DevsOn(p) :
        /\ pc[e] = "dropping" /\ cpu[p] = e
        /\ busLock[p] = f /\ pc[f] = "waiting"

\* An operation on a device of bus q needs only the executor thread to take
\* its next step.
ReadyOn(q) ==
    \/ \E d \in DevsOn(q) : (pc[d] = "acquire" /\ LockAvailable(q))
    \/ \E d \in DevsOn(q) : (pc[d] = "waiting" /\ AwaitDone(q))
    \/ (drv[q] = "owned" /\ ppc[q] = "waiting" /\ AwaitDone(q))

\* C16: an operation on one bus that is ready to take its next step is never
\* kept from it by the held lock of another bus.
C16_OtherBusNeverDelayed ==
    \A p, q \in Ports :
        (p # q /\ ReadyOn(q)) => ~(SpinsOnHeldLock(p) /\ ~CpuFree(q))

\* C17: the slave callback is registered with the port's Notifier in every
\* state in which the slave driver exists and is never registered on a
\* deleted handle; async_read queues one native receive and changes no
\* registration; destruction unregisters the callback and deletes the handle.
C17_SlaveArmedOnce ==
    /\ [](\A p \in Ports :
            /\ drv[p] = "slave" => (pcb[p] = p /\ phandle[p])
            /\ ~phandle[p] => pcb[p] = NoCb)
    /\ [][\A p \in Ports :
            /\ (drv[p] = "slave" /\ drv'[p] = "slave") =>
                  /\ pcb'[p] = pcb[p]
                  /\ (ppc[p] = Idle /\ ppc'[p] = "issued") =>
                        pinflight'[p] = pinflight[p] + 1
            /\ (drv[p] = "slave" /\ drv'[p] # "slave" /\ ~panicked') =>
                  (pcb'[p] = NoCb /\ ~phandle'[p])]_vars

\* C17 witness: async_read has queued its receive and waits on the Notifier
\* of the slave's port, port 1.
C17_Witness ==
    /\ drv[1] = "slave" /\ ppc[1] = "waiting"
    /\ pinflight[1] = 1 /\ pcb[1] = 1 /\ ~notified[1]

\* C18: a synchronous slave read never completes with a successful result:
\* it returns the error of i2c_slave_receive or panics in todo!().
C18_SlaveReadNeverOk ==
    (req.op = "slave_read" /\ out # Pending) =>
        /\ out.result # ESP_OK
        /\ out.result \in NativeErrors \cup {TodoHowToBlock}
        /\ req.native = ESP_OK => out.result = TodoHowToBlock

\* C18 witness: the native receive was accepted and the call ended in todo!().
C18_Witness ==
    /\ req.op = "slave_read" /\ req.native = ESP_OK /\ req.len = MaxLen
    /\ out # Pending /\ out.result = TodoHowToBlock

\* C19: transaction() of every driver type ends in the not-implemented
\* failure and makes no native call (no transfer, no registration; it takes
\* no lock).
C19_TransactionNotImplemented ==
    (req.op = "transaction" /\ out # Pending) =>
        /\ out.result = NotImplemented
        /\ out.calls = <<>>

\* C19 witness: transaction() with operations on an owned asynchronous device.
C19_Witness ==
    /\ req.op = "transaction" /\ req.kind = "OwnedAsyncI2cDeviceDriver"
    /\ req.nops = MaxOps
    /\ out # Pending /\ out.result = NotImplemented

\* C20: init_device with a baud rate above 1 MHz returns InvalidArgument
\* without calling i2c_master_bus_add_device; with a baud rate of at most
\* 1 MHz it makes the call and returns its result.
C20_BaudCheck ==
    (req.op = "init_device" /\ out # Pending) =>
        /\ req.baud > 1000000 =>
              /\ out.res = ESP_ERR_INVALID_ARG
              /\ ~out.called /\ ~out.handle
        /\ req.baud <= 1000000 =>
              /\ out.called
              /\ out.res = req.native
              /\ out.handle <=> req.native = ESP_OK

\* C20 witness: 2 MHz has been rejected before the native call.
C20_Witness ==
    /\ req.op = "init_device" /\ req.baud = 2000000
    /\ out # Pending /\ out.res = ESP_ERR_INVALID_ARG /\ ~out.called

\* C21 (as claimed): ESP_FAIL maps to NoAcknowledge, an invalid configuration
\* (ESP_ERR_INVALID_ARG) to InvalidArgument, an allocation failure
\* (ESP_ERR_NO_MEM) to ResourceExhausted, and every other code to Other; the
\* original code is carried unchanged.
C21_ErrorTaxonomy ==
    (req.op = "to_i2c_err" /\ out # Pending) =>
        /\ out.cause = req.code
        /\ out.kind = CASE req.code = "ESP_FAIL" -> "NoAcknowledge"
                        [] req.code = ESP_ERR_INVALID_ARG -> "InvalidArgument"
                        [] req.code = "ESP_ERR_NO_MEM" -> "ResourceExhausted"
                        [] OTHER -> "Other"

\* C22 (as claimed): probe of an address where no device is present returns
\* NoAcknowledge (as such, or as a native code that to_i2c_err classifies as
\* NoAcknowledge), probe of an address where a device acknowledges returns
\* success; it makes the one native probe call and creates no device handle.
C22_ProbeNoAcknowledge ==
    (req.op = "probe" /\ out # Pending) =>
        /\ ~req.present =>
              \/ out.result.kind = "NoAcknowledge"
              \/ /\ out.result.kind = "EspError"
                 /\ ToI2cErr(out.result.cause).kind = "NoAcknowledge"
        /\ (req.present /\ req.native = ESP_OK) => out.result.kind = "Ok"
        /\ Len(out.calls) = 1 /\ out.calls[1].fn = "i2c_master_probe"

\* C23: SevenBit(a).address() = a and TenBit(b).address() = b (0x50 gives 80,
\* 0x321 gives 801), and the native width flag is 7-bit exactly for SevenBit
\* and 10-bit exactly for TenBit.
C23_DeviceAddressRoundTrip ==
    (req.op = "device_address" /\ out # Pending) =>
        /\ out.address = req.da.addr
        /\ (out.bit_len = "I2C_ADDR_BIT_LEN_7") <=> (req.da.variant = "SevenBit")
        /\ (out.bit_len = "I2C_ADDR_BIT_LEN_10") <=> (req.da.variant = "TenBit")
        /\ (req.da = [variant |-> "SevenBit", addr |-> 80]) => out.address = 80
        /\ (req.da = [variant |-> "TenBit", addr |-> 801]) => out.address = 801

\* C23 witness: TenBit(0x321) was converted and gave 801 with the 10-bit flag.
C23_Witness ==
    /\ req.op = "device_address" /\ out # Pending
    /\ req.da = [variant |-> "TenBit", addr |-> 801]
    /\ out = [address |-> 801, bit_len |-> "I2C_ADDR_BIT_LEN_10"]

\* An operation on port p that issued its transfer and has not yet returned
\* from its wait, whose transfer has already completed.
SignalledBeforeWait(d) == pc[d] = "issued" /\ inflight[d] = 0

C25_NoMisattribution ==
    /\ \A d \in Devs : pc[d] = "woken" => inflight[d] = 0
    /\ \A p \in Ports :
          (drv[p] = "owned" /\ ppc[p] = Idle /\ pres[p] = ESP_OK) => pinflight[p] = 0

\* The tasks that may hold the lock of bus p: an operation between acquire
\* and return, or a teardown that has taken the lock.
LockHolders(p) ==
    {d \in DevsOn(p) : InTransfer(d) \/ pc[d] = "droplocked"}

\* C26: whenever a borrowed operation returns (Ok, or the error of its arm,
\* issue or disarm step) the bus lock it acquired is free in the state it
\* returns to; a task that is not inside an operation or a teardown never
\* holds the lock; and an operation that waits for a lock which no operation
\* or teardown holds can acquire it as soon as the executor runs it.
C26_LockReleasedOnReturn ==
    /\ [][\A d \in Devs :
            (InTransfer(d) /\ pc'[d] = Idle)
                => /\ busLock[devPort[d]] = d
                   /\ busLock'[devPort[d]] = NoTask
                   /\ res'[d] # "none"]_vars
    /\ [](\A p \in Ports : \A d \in DevsOn(p) :
            busLock[p] = d => d \in LockHolders(p))
    /\ [](\A p \in Ports : \A e \in DevsOn(p) :
            (pc[e] = "acquire" /\ LockHolders(p) = {} /\ CpuFree(p) /\ ~panicked)
                => ENABLED Acquire(e))

\* C26 witness: an operation returned the error of its disarm step, the lock
\* is free again, and an operation on another device of the same bus is
\* waiting to acquire it.
C26_Witness ==
    \E d, e \in Devs :
        /\ d # e /\ devPort[d] = devPort[e]
        /\ pc[d] = Idle /\ Has(steps[d], "disarm_failed") /\ res[d] \in NativeErrors
        /\ pc[e] = "acquire" /\ busLock[devPort[d]] = NoTask

\* The task that holds the lock of bus p can take a step of its operation or
\* teardown.
HolderCanRun(p) ==
    \E f \in DevsOn(p) :
        /\ busLock[p] = f
        /\ ENABLED (Arm(f) \/ Issue(f) \/ OnErrDisarm(f) \/ WaitPoll(f) \/ Wake(f)
                        \/ Disarm(f) \/ DropDeviceRm(f))

\* C27 (as claimed): the teardown of a borrowed device terminates on a single
\* executor thread: whenever its loop spins on the bus lock, either try_lock
\* succeeds or the holder of the lock can run and so release it, also when
\* the holder is an operation of another device with a transfer in flight.
C27_TeardownTerminates ==
    \A d \in Devs :
        pc[d] = "dropping" => (TryLockOk(devPort[d]) \/ HolderCanRun(devPort[d]))

\* C28 (as claimed): when OwnedAsyncI2cDeviceDriver::wrap fails, at the
\* allocation of the device handle or at the registration of the callback, no
\* native device handle and no callback registration of the port is left, and
\* the bus handle that was passed in is freed, never twice.
C28_WrapFailureCleansUp ==
    \A p \in Ports :
        origin[p] = "wrap_failed"
            => /\ ~phandle[p]
               /\ pcb[p] = NoCb
               /\ bh[p] \in {"live", "freed"}
               /\ drv[p] \in {"bus_dropping", "bus_droplocked"}

====
